---- MODULE Spec2Model ----
(***************************************************************************)
(* Model of Data_CLEANSING_TP.py: a PySpark script that projects a product *)
(* table to a keep list, casts and fills it, drops duplicates, flags       *)
(* Tukey-fence outliers per numeric column, and then derives a main        *)
(* category, a nutrition score and per-category averages.                  *)
(*                                                                         *)
(* A DataFrame is a record [columns, dtypes, rows]: the ordered column     *)
(* names, the declared type of each column, and the rows (functions from   *)
(* column name to cell).  A cell is NULL, Num(i) or Str(chars); strings    *)
(* are sequences of one-character strings so that the integer cast and     *)
(* the split on "," are computed character by character.                   *)
(*                                                                         *)
(* Library semantics assumed (Spark 3.x, ANSI mode off):                   *)
(*   - cast(string as int) yields NULL on a string that is no number;      *)
(*   - na.fill(v, subset) touches only the subset columns whose declared   *)
(*     type matches v; a subset name that is no column of the frame is     *)
(*     ignored by some releases and rejected by others, so the model       *)
(*     takes either outcome;                                               *)
(*   - approxQuantile ignores NULLs, returns [] when nothing is left, and  *)
(*     is exact (nearest rank) for the small frames explored here, since   *)
(*     relativeError * count < 1;                                          *)
(*   - a comparison with NULL is not true, so filter drops the row.        *)
(* The columns of the input carry the types the script's own lists give    *)
(* them (text columns string, measurement columns double, scores int);     *)
(* quantity is a string column ("500g", "1L") until the script casts it.   *)
(***************************************************************************)
EXTENDS Integers, Sequences, FiniteSets, TLC

VARIABLES pc, df_csv, df_filtered, df_clean, defined, column, outliers,
          columns_list, stats, errors

vars == <<pc, df_csv, df_filtered, df_clean, defined, column, outliers,
          columns_list, stats, errors>>

\* Largest number of rows of the input table.
MaxRows == 4

-----------------------------------------------------------------------------
\* Cells

NULL == [k |-> "null", n |-> 0, s |-> <<>>]

Num(i) == [k |-> "num", n |-> i, s |-> <<>>]

Str(cs) == [k |-> "str", n |-> 0, s |-> cs]

Range(f) == {f[i] : i \in DOMAIN f}

-----------------------------------------------------------------------------
\* The script's column lists

columns_to_keep ==
    << "product_name", "categories", "ingredients_text", "allergens", "traces",
       "quantity", "serving_size", "serving_quantity", "nutriscore_score",
       "nutriscore_grade", "nova_group", "ecoscore_score", "ecoscore_grade",
       "energy-kj_100g", "energy-kcal_100g", "sugars_100g", "fiber_100g",
       "proteins_100g", "salt_100g", "fat_100g", "saturated-fat_100g" >>

fill_zero_subset ==
    << "quantity", "serving_quantity", "energy-kj_100g", "energy-kcal_100g",
       "fat_100g", "saturated-fat_100g", "sugars_100g",
       "fiber_100g", "proteins_100g", "salt_100g" >>

fill_undefined_subset ==
    << "product_name", "categories", "ingredients_text", "allergens", "traces",
       "nutriscore_grade", "ecoscore_grade" >>

numeric_columns ==
    << "quantity", "serving_quantity", "nutriscore_score", "ecoscore_score",
       "energy-kj_100g", "energy-kcal_100g", "sugars_100g", "fiber_100g",
       "proteins_100g", "salt_100g", "fat_100g", "saturated-fat_100g" >>

\* The literal "undefined" of the text fill.
undefined == Str(<<"u", "n", "d", "e", "f", "i", "n", "e", "d">>)

zero == Num(0)

-----------------------------------------------------------------------------
\* DataFrame operations

NoFrame == [columns |-> <<>>, dtypes |-> <<>>, rows |-> <<>>]

IsNumericType(t) == t \in {"int", "double"}

\* df.select(names): the named columns, in the order given.
select(df, names) ==
    LET named == Range(names)
    IN  [columns |-> names,
         dtypes  |-> [c \in named |-> df.dtypes[c]],
         rows    |-> [i \in DOMAIN df.rows |->
                         [c \in named |-> df.rows[i][c]]]]

\* [col for col in columns_to_keep if col in df_csv.columns]
kept_columns(df) ==
    LET present == Range(df.columns)
    IN  SelectSeq(columns_to_keep, LAMBDA c : c \in present)

IsDigit(ch) == ch \in {"0", "1", "2", "3", "4", "5", "6", "7", "8", "9"}

DigitVal(ch) ==
    CASE ch = "0" -> 0 [] ch = "1" -> 1 [] ch = "2" -> 2 [] ch = "3" -> 3
      [] ch = "4" -> 4 [] ch = "5" -> 5 [] ch = "6" -> 6 [] ch = "7" -> 7
      [] ch = "8" -> 8 [] ch = "9" -> 9

RECURSIVE digitsValue(_, _)
digitsValue(cs, acc) ==
    IF cs = <<>> THEN acc
    ELSE digitsValue(Tail(cs), 10 * acc + DigitVal(Head(cs)))

\* Index of the first occurrence of ch in cs, or Len(cs) + 1.
RECURSIVE indexOf(_, _, _)
indexOf(cs, ch, i) ==
    IF i > Len(cs) THEN i
    ELSE IF cs[i] = ch THEN i
    ELSE indexOf(cs, ch, i + 1)

\* cast(string as int): optional sign, digits, optional fraction that is
\* truncated; anything else, or a value outside 32 bits, is NULL.
castStringToInt(cs) ==
    LET signed == cs # <<>> /\ Head(cs) \in {"-", "+"}
        body   == IF signed THEN Tail(cs) ELSE cs
        dot    == indexOf(body, ".", 1)
        whole  == SubSeq(body, 1, dot - 1)
        frac   == SubSeq(body, dot + 1, Len(body))
        ok     == /\ whole # <<>>
                  /\ \A i \in DOMAIN whole : IsDigit(whole[i])
                  /\ \A i \in DOMAIN frac : IsDigit(frac[i])
        mag    == digitsValue(whole, 0)
        val    == IF signed /\ Head(cs) = "-" THEN 0 - mag ELSE mag
    IN  IF ok /\ val >= 0 - 2147483647 - 1 /\ val <= 2147483647
        THEN Num(val) ELSE NULL

\* col.cast("int") on one cell.
castInt(v) ==
    CASE v.k = "null" -> NULL
      [] v.k = "num"  -> v
      [] v.k = "str"  -> castStringToInt(v.s)

\* df.withColumn("quantity", col("quantity").cast("int"))
castQuantity(df) ==
    [df EXCEPT !.dtypes = [@ EXCEPT !["quantity"] = "int"],
               !.rows = [i \in DOMAIN df.rows |->
                            [df.rows[i] EXCEPT !["quantity"] = castInt(@)]]]

\* Variant of fillMatches: a numeric fill value reaches double columns only.
fillMatches_doubleOnly(value, t) ==
    IF value.k = "num" THEN t = "double" ELSE t = "string"

\* Whether a fill value applies to a column of type t.
fillMatches(value, t) ==
    IF value.k = "num" THEN IsNumericType(t) ELSE t = "string"

\* Variant of fillna: the subset is disregarded, as in na.fill(value).
fillna_everyColumn(df, value, subset) ==
    [df EXCEPT !.rows =
        [i \in DOMAIN df.rows |->
            [c \in Range(df.columns) |->
                IF fillMatches(value, df.dtypes[c]) /\ df.rows[i][c] = NULL
                THEN value ELSE df.rows[i][c]]]]

\* df.na.fill(value, subset)
fillna(df, value, subset) ==
    LET hit == {c \in Range(subset) \cap Range(df.columns) :
                   fillMatches(value, df.dtypes[c])}
    IN  [df EXCEPT !.rows =
            [i \in DOMAIN df.rows |->
                [c \in Range(df.columns) |->
                    IF c \in hit /\ df.rows[i][c] = NULL THEN value
                    ELSE df.rows[i][c]]]]

\* Variant of distinctRows: only a repetition of the preceding row is dropped.
RECURSIVE distinctRows_adjacentOnly(_, _)
distinctRows_adjacentOnly(rows, acc) ==
    IF rows = <<>> THEN acc
    ELSE distinctRows_adjacentOnly(Tail(rows),
             IF acc # <<>> /\ Head(rows) = acc[Len(acc)] THEN acc
             ELSE Append(acc, Head(rows)))

\* The rows of a sequence without repetitions (first occurrences).
RECURSIVE distinctRows(_, _)
distinctRows(rows, acc) ==
    IF rows = <<>> THEN acc
    ELSE distinctRows(Tail(rows),
                      IF Head(rows) \in Range(acc) THEN acc
                      ELSE Append(acc, Head(rows)))

\* df.dropDuplicates()
dropDuplicates(df) == [df EXCEPT !.rows = distinctRows(df.rows, <<>>)]

\* Variant of fillAndDeduplicate: duplicates are dropped before the fills.
fillAndDeduplicate_dedupFirst(df) ==
    fillna(fillna(dropDuplicates(df), zero, fill_zero_subset),
           undefined, fill_undefined_subset)

\* df_filtered.na.fill(0, [...]).na.fill("undefined", [...]).dropDuplicates()
fillAndDeduplicate(df) ==
    dropDuplicates(fillna(fillna(df, zero, fill_zero_subset),
                          undefined, fill_undefined_subset))

-----------------------------------------------------------------------------
\* Outlier detection

\* Insertion of x into an ascending sequence.
RECURSIVE insertSorted(_, _)
insertSorted(xs, x) ==
    IF xs = <<>> THEN <<x>>
    ELSE IF x <= Head(xs) THEN <<x>> \o xs
    ELSE <<Head(xs)>> \o insertSorted(Tail(xs), x)

RECURSIVE sortAscending(_)
sortAscending(xs) ==
    IF xs = <<>> THEN <<>>
    ELSE insertSorted(sortAscending(Tail(xs)), Head(xs))

\* The non-NULL numbers of column c, in row order.
columnValues(df, c) ==
    LET present == SelectSeq(df.rows, LAMBDA r : r[c].k = "num")
    IN  [i \in DOMAIN present |-> present[i][c].n]

\* Whether df.approxQuantile(c, ...) raises: c is no column, or not numeric.
approxQuantileRaises(df, c) ==
    \/ c \notin Range(df.columns)
    \/ ~IsNumericType(df.dtypes[c])

\* df.approxQuantile(c, probabilities, 0.01) with each probability given as
\* <<numerator, denominator>>: the value of rank ceil(p * count) among the
\* sorted non-NULL values, and the empty list when there is none.
approxQuantile(df, c, probabilities) ==
    LET sorted == sortAscending(columnValues(df, c))
        count  == Len(sorted)
        rank(p) == (p[1] * count + p[2] - 1) \div p[2]
    IN  IF count = 0 THEN <<>>
        ELSE [j \in DOMAIN probabilities |->
                 sorted[IF rank(probabilities[j]) = 0 THEN 1
                        ELSE rank(probabilities[j])]]

\* Variant of isOutlier: the fences themselves count as outside.
isOutlier_inclusive(r, c, q1, q3) ==
    LET iqr == q3 - q1
    IN  /\ r[c].k = "num"
        /\ \/ 2 * r[c].n <= 2 * q1 - 3 * iqr
           \/ 2 * r[c].n >= 2 * q3 + 3 * iqr

\* (col(c) < lower_bound) | (col(c) > upper_bound) on one row, with
\* lower_bound = q1 - 1.5 * iqr and upper_bound = q3 + 1.5 * iqr; both sides
\* are doubled to stay in the integers.  A NULL cell satisfies neither.
isOutlier(r, c, q1, q3) ==
    LET iqr == q3 - q1
    IN  /\ r[c].k = "num"
        /\ \/ 2 * r[c].n < 2 * q1 - 3 * iqr
           \/ 2 * r[c].n > 2 * q3 + 3 * iqr

\* df_clean.filter(...) of the loop body.
outlierRows(df, c, q1, q3) ==
    SelectSeq(df.rows, LAMBDA r : isOutlier(r, c, q1, q3))

-----------------------------------------------------------------------------
\* Derived columns and aggregates

\* df.withColumn(name, ...), cells[i] being the value of the column expression
\* on row i: the column is appended, or replaced in place.
withColumn(df, name, dtype, cells) ==
    LET cols == IF name \in Range(df.columns) THEN df.columns
                ELSE Append(df.columns, name)
    IN  [columns |-> cols,
         dtypes  |-> [c \in Range(cols) |->
                         IF c = name THEN dtype ELSE df.dtypes[c]],
         rows    |-> [i \in DOMAIN df.rows |->
                         [c \in Range(cols) |->
                             IF c = name THEN cells[i]
                             ELSE df.rows[i][c]]]]

\* split(col("categories_tags"), ",").getItem(0): NULL for a NULL field,
\* otherwise the characters before the first comma.
main_category(r) ==
    LET v == r["categories_tags"]
    IN  IF v.k # "str" THEN NULL
        ELSE Str(SubSeq(v.s, 1, indexOf(v.s, ",", 1) - 1))

\* col("energy_100g") - col("fiber_100g") + col("sugars_100g"); NULL as soon
\* as one operand is NULL.
nutrition_score(r) ==
    LET e == r["energy_100g"]
        f == r["fiber_100g"]
        s == r["sugars_100g"]
    IN  IF e.k = "num" /\ f.k = "num" /\ s.k = "num"
        THEN Num(e.n - f.n + s.n) ELSE NULL

RECURSIVE sumSeq(_)
sumSeq(xs) == IF xs = <<>> THEN 0 ELSE Head(xs) + sumSeq(Tail(xs))

\* avg(c) over the rows of one group: the quotient total / count of the
\* non-NULL values, kept as the pair; count = 0 stands for a NULL average.
avg(rows, c) ==
    LET present == SelectSeq(rows, LAMBDA r : r[c].k = "num")
    IN  [total |-> sumSeq([i \in DOMAIN present |-> present[i][c].n]),
         count |-> Len(present)]

\* df.groupBy("main_category").agg(avg(...), avg(...), avg(...)): one row
\* per distinct key, NULL being a key of its own.
groupByMainCategory(df) ==
    LET keys == distinctRows([i \in DOMAIN df.rows |->
                                 df.rows[i]["main_category"]], <<>>)
        group(k) == SelectSeq(df.rows, LAMBDA r : r["main_category"] = k)
    IN  [j \in DOMAIN keys |->
            [main_category |-> keys[j],
             avg_energy |-> avg(group(keys[j]), "energy_100g"),
             avg_sugars |-> avg(group(keys[j]), "sugars_100g"),
             avg_fiber  |-> avg(group(keys[j]), "fiber_100g")]]

-----------------------------------------------------------------------------
\* The input table df_csv (the state after the load of lines 16-21)

\* Columns of a full input file: the keep list, plus columns the keep list
\* does not name.
input_columns ==
    <<"code">> \o columns_to_keep \o <<"categories_tags", "energy_100g">>

\* Declared type of each input column.
input_dtype(c) ==
    IF c \in {"nutriscore_score", "nova_group", "ecoscore_score"} THEN "int"
    ELSE IF c \in Range(numeric_columns) \ {"quantity"} \/ c = "energy_100g"
    THEN "double"
    ELSE "string"

\* Inputs explored: the cells of three columns vary from row to row ...
QuantityCells == << Str(<<"5", "0", "0", "g">>), Str(<<"1", "2">>) >>

SugarsCells == << NULL, Num(0), Num(9) >>

NutriscoreCells == << NULL, Num(2) >>

\* ... and every other column holds the same cell on every row.
other_cell(c) ==
    CASE c \in {"product_name", "traces", "serving_size", "nova_group",
                "energy-kj_100g", "fiber_100g"} -> NULL
      [] c = "categories_tags" ->
            Str(<<"s", "n", "a", "c", "k", "s", ",", "b", "i", "o">>)
      [] c = "energy_100g" -> Num(100)
      [] c = "ecoscore_score" -> Num(3)
      [] c = "code" -> Str(<<"7">>)
      [] input_dtype(c) = "string" -> Str(<<"a">>)
      [] OTHER -> Num(1)

NumRowChoices == Len(QuantityCells) * Len(SugarsCells) * Len(NutriscoreCells)

\* The i-th input row, i in 1..NumRowChoices (mixed-radix decoding of i - 1).
row_choice(i) ==
    LET a == (i - 1) % Len(QuantityCells)
        b == ((i - 1) \div Len(QuantityCells)) % Len(SugarsCells)
        d == (i - 1) \div (Len(QuantityCells) * Len(SugarsCells))
    IN  [c \in Range(input_columns) |->
            CASE c = "quantity" -> QuantityCells[a + 1]
              [] c = "sugars_100g" -> SugarsCells[b + 1]
              [] c = "nutriscore_score" -> NutriscoreCells[d + 1]
              [] OTHER -> other_cell(c)]

\* Row order is immaterial to every operation of the script, so each choice
\* of up to MaxRows different rows is taken once, in ascending index order.
\* Records that differ in the file become equal during cleaning (a quantity
\* that is no number, an absent sugars cell against a 0), which is what
\* gives dropDuplicates its work.
RECURSIVE ascending(_)
ascending(S) ==
    IF S = {} THEN <<>>
    ELSE LET least == CHOOSE x \in S : \A y \in S : x <= y
         IN  <<least>> \o ascending(S \ {least})

RowIndexes ==
    {ascending(S) : S \in {T \in SUBSET (1..NumRowChoices) :
                               T # {} /\ Cardinality(T) <= MaxRows}}

\* Columns that the input file may lack, one at a time.
AbsentColumnChoices == {{}, {"quantity"}, {"nova_group"}, {"traces"}}

\* The table of the rows ix without the columns `absent`.
input_frame(ix, absent) ==
    LET cols == SelectSeq(input_columns, LAMBDA c : c \notin absent)
    IN  [columns |-> cols,
         dtypes  |-> [c \in Range(cols) |-> input_dtype(c)],
         rows    |-> [i \in DOMAIN ix |->
                         [c \in Range(cols) |-> row_choice(ix[i])[c]]]]

-----------------------------------------------------------------------------
\* The script, statement by statement.  pc names the statement to run next.
\* The file is divided into cells (#%%): an exception ends the run when the
\* file is run as a script, and ends only the current cell when the cells
\* are run one after the other in an interactive session.

Init ==
    /\ pc = "select"
    /\ \E ix \in RowIndexes, absent \in AbsentColumnChoices :
           df_csv = input_frame(ix, absent)
    /\ df_filtered = NoFrame
    /\ df_clean = NoFrame
    /\ defined = {"df_csv"}
    /\ column = 1
    /\ outliers = <<>>
    /\ columns_list = <<>>
    /\ stats = <<>>
    /\ errors = <<>>

\* An exception at `line`: the script stops, or the session goes on with
\* the cell that starts at `next_cell`.
Raise(line, next_cell) ==
    /\ errors' = Append(errors, line)
    /\ pc' \in {"halted", next_cell}

\* Line 60.
Select ==
    /\ pc = "select"
    /\ df_filtered' = select(df_csv, kept_columns(df_csv))
    /\ defined' = defined \cup {"df_filtered"}
    /\ pc' = "cast"
    /\ UNCHANGED <<df_csv, df_clean, column, outliers, columns_list, stats,
                   errors>>

\* Line 61: col("quantity") does not resolve when the column is missing.
CastQuantity ==
    /\ pc = "cast"
    /\ IF "quantity" \in Range(df_filtered.columns)
       THEN /\ df_filtered' = castQuantity(df_filtered)
            /\ pc' = "clean"
            /\ UNCHANGED errors
       ELSE /\ Raise(61, "main_category")
            /\ UNCHANGED df_filtered
    /\ UNCHANGED <<df_csv, df_clean, defined, column, outliers, columns_list,
                   stats>>

\* Lines 63-72.  A subset name that is no column is rejected or ignored,
\* depending on the library release.
Clean ==
    /\ pc = "clean"
    /\ \/ /\ df_clean' = fillAndDeduplicate(df_filtered)
          /\ defined' = defined \cup {"df_clean"}
          /\ pc' = "outliers"
          /\ UNCHANGED errors
       \/ /\ \E c \in Range(fill_zero_subset) \cup Range(fill_undefined_subset) :
                 c \notin Range(df_filtered.columns)
          /\ Raise(63, "main_category")
          /\ UNCHANGED <<df_clean, defined>>
    /\ UNCHANGED <<df_csv, df_filtered, column, outliers, columns_list, stats>>

\* Lines 85-96, one iteration of the loop.
OutlierStep ==
    /\ pc = "outliers"
    /\ LET c == numeric_columns[column]
           quantiles == approxQuantile(df_clean, c, << <<1, 4>>, <<3, 4>> >>)
       IN  IF approxQuantileRaises(df_clean, c)
           THEN /\ Raise(86, "main_category")
                /\ UNCHANGED <<outliers, column>>
           ELSE IF quantiles = <<>>
           THEN /\ Raise(87, "main_category")
                /\ UNCHANGED <<outliers, column>>
           ELSE /\ outliers' = (c :> outlierRows(df_clean, c, quantiles[1],
                                                 quantiles[2])) @@ outliers
                /\ column' = column + 1
                /\ pc' = IF column = Len(numeric_columns)
                         THEN "main_category" ELSE "outliers"
                /\ UNCHANGED errors
    /\ UNCHANGED <<df_csv, df_filtered, df_clean, defined, columns_list, stats>>

\* Line 109.
MainCategory ==
    /\ pc = "main_category"
    /\ IF /\ "df_clean" \in defined
          /\ "categories_tags" \in Range(df_clean.columns)
       THEN /\ df_clean' = withColumn(df_clean, "main_category", "string",
                                      [i \in DOMAIN df_clean.rows |->
                                          main_category(df_clean.rows[i])])
            /\ pc' = "transform"
            /\ UNCHANGED errors
       ELSE /\ Raise(109, "transform")
            /\ UNCHANGED df_clean
    /\ UNCHANGED <<df_csv, df_filtered, defined, column, outliers,
                   columns_list, stats>>

\* Lines 117-132, the cell that lists the columns, adds nutrition_score and
\* aggregates by main category.
Transform ==
    /\ pc = "transform"
    /\ IF "df_clean" \notin defined
       THEN /\ Raise(117, "done")
            /\ UNCHANGED <<columns_list, df_clean, stats>>
       ELSE /\ columns_list' = df_clean.columns
            /\ IF ~({"energy_100g", "fiber_100g", "sugars_100g"}
                       \subseteq Range(df_clean.columns))
               THEN /\ Raise(124, "done")
                    /\ UNCHANGED <<df_clean, stats>>
               ELSE LET scored == withColumn(df_clean, "nutrition_score",
                                 "double",
                                 [i \in DOMAIN df_clean.rows |->
                                     nutrition_score(df_clean.rows[i])])
                    IN  /\ df_clean' = scored
                        /\ IF "main_category" \in Range(scored.columns)
                           THEN /\ stats' = groupByMainCategory(scored)
                                /\ pc' = "done"
                                /\ UNCHANGED errors
                           ELSE /\ Raise(127, "done")
                                /\ UNCHANGED stats
    /\ UNCHANGED <<df_csv, df_filtered, defined, column, outliers>>

Next ==
    \/ Select
    \/ CastQuantity
    \/ Clean
    \/ OutlierStep
    \/ MainCategory
    \/ Transform

Spec == Init /\ [][Next]_vars

-----------------------------------------------------------------------------
\* Vocabulary of the properties

\* The cleaning statements (lines 60-72) have produced df_clean.
Cleaned == "df_clean" \in defined

\* Line of the last exception, 0 when none was raised.
LastError == IF errors = <<>> THEN 0 ELSE errors[Len(errors)]

\* The cleaning statements have run, to their end or to an exception.
CleaningRan == pc \notin {"select", "cast", "clean"}

\* Line 109 has run, to its end or to an exception.
MainCategoryRan ==
    \/ pc \in {"transform", "done"}
    \/ pc = "halted" /\ LastError >= 109

\* Lines 117-132 have run, to their end or to an exception.
TransformRan ==
    \/ pc = "done"
    \/ pc = "halted" /\ LastError >= 117

\* Lines 60-72 as one function of a table.
clean(df) == fillAndDeduplicate(castQuantity(select(df, kept_columns(df))))

\* The columns of the two fill lists.
FillZeroColumns == Range(fill_zero_subset)

FillUndefinedColumns == Range(fill_undefined_subset)

\* What cleaning is to make of cell c of an input record r: the quantity is
\* cast, an absent cell of a fill column becomes 0 or "undefined", and any
\* other cell is kept as it is.
cleanedCell(r, c) ==
    LET v == IF c = "quantity" THEN castInt(r[c]) ELSE r[c]
    IN  IF v = NULL /\ c \in FillZeroColumns THEN zero
        ELSE IF v = NULL /\ c \in FillUndefinedColumns THEN undefined
        ELSE v

cleanedRecord(r) == [c \in Range(df_clean.columns) |-> cleanedCell(r, c)]

\* An input record that cleaned record i stands for.
Source(i) ==
    LET k == CHOOSE k \in DOMAIN df_csv.rows :
                 \A c \in Range(kept_columns(df_csv)) :
                     df_clean.rows[i][c] = cleanedCell(df_csv.rows[k], c)
    IN  df_csv.rows[k]

\* The first element of a category-tag field split on ",", and "" when the
\* field is absent.
FirstTag(v) ==
    IF v.k = "str" THEN Str(SubSeq(v.s, 1, indexOf(v.s, ",", 1) - 1))
    ELSE Str(<<>>)

\* The number of a cell, an absent cell counting as 0.
ZeroIfAbsent(v) == IF v.k = "num" THEN v.n ELSE 0

\* Nearest-rank percentile num/den of a non-empty sequence of numbers: the
\* least value with at least that share of the values at or below it.
Percentile(vals, num, den) ==
    LET enough(v) ==
            den * Cardinality({i \in DOMAIN vals : vals[i] <= v})
                >= num * Len(vals)
    IN  CHOOSE v \in Range(vals) :
            enough(v) /\ \A w \in Range(vals) : enough(w) => v <= w

Q1(c) == Percentile(columnValues(df_clean, c), 1, 4)

Q3(c) == Percentile(columnValues(df_clean, c), 3, 4)

\* The records outside the Tukey fences of column c, given its quartiles.
OutsideFences(c, q1, q3) ==
    {r \in Range(df_clean.rows) :
        /\ r[c].k = "num"
        /\ \/ 2 * r[c].n < 2 * q1 - 3 * (q3 - q1)
           \/ 2 * r[c].n > 2 * q3 + 3 * (q3 - q1)}

-----------------------------------------------------------------------------
C2_CleanIdempotent ==
    Cleaned => /\ df_clean = clean(df_csv)
               /\ clean(df_clean) = df_clean

\* C2 witness: a cleaning that cast a quantity to absent, filled cells and
\* removed records.
C2_Witness ==
    /\ Cleaned
    /\ Len(df_clean.rows) < Len(df_csv.rows)
    /\ \E i \in DOMAIN df_csv.rows :
           /\ castInt(df_csv.rows[i]["quantity"]) = NULL
           /\ df_csv.rows[i]["sugars_100g"] = NULL

\* C3: no cell of a fill-list column of the cleaned table is absent, a
\* quantity whose integer cast failed included.
C3_NoAbsentInFillColumns ==
    Cleaned =>
        \A i \in DOMAIN df_clean.rows :
            \A c \in FillZeroColumns \cup FillUndefinedColumns :
                c \in Range(df_clean.columns) => df_clean.rows[i][c] # NULL

\* C3 witness: the table was cleaned and the cast of some quantity failed.
C3_Witness ==
    /\ Cleaned
    /\ \E i \in DOMAIN df_csv.rows :
           /\ df_csv.rows[i]["quantity"].k = "str"
           /\ castInt(df_csv.rows[i]["quantity"]) = NULL

\* C4: the cleaned table holds no record twice, and every input record is
\* represented by exactly one cleaned record, so that input records that
\* agree once cast and filled are collapsed into one.
C4_NoDuplicates ==
    Cleaned =>
        /\ \A i, j \in DOMAIN df_clean.rows :
               df_clean.rows[i] = df_clean.rows[j] => i = j
        /\ \A i \in DOMAIN df_csv.rows :
               LET cleaned == cleanedRecord(df_csv.rows[i])
               IN  Cardinality({j \in DOMAIN df_clean.rows :
                                   df_clean.rows[j] = cleaned}) = 1

\* C4 witness: two input records that differ after the cast, by an absent
\* cell against a 0, have become one cleaned record.
C4_Witness ==
    /\ Cleaned
    /\ \E i, j \in DOMAIN df_csv.rows :
           /\ df_csv.rows[i]["sugars_100g"] = NULL
           /\ df_csv.rows[j]["sugars_100g"] = zero
           /\ cleanedRecord(df_csv.rows[i]) = cleanedRecord(df_csv.rows[j])

\* C5 (as claimed): once the cleaning statements have run on an input that
\* lacks keep-list columns, no exception was raised and the cleaned table
\* has exactly the keep-list columns that the input has.
C5_MissingColumnsSkipped ==
    CleaningRan =>
        /\ Cleaned
        /\ \A l \in Range(errors) : l > 72
        /\ Range(df_clean.columns) \cap Range(columns_to_keep)
               = Range(kept_columns(df_csv))

\* C6 (as claimed): once line 109 has run on a cleaned table, every record
\* has a main_category, the text before the first comma of the category
\* tags of the record, and "" when the tags are absent or empty.
C6_MainCategoryDerived ==
    (Cleaned /\ MainCategoryRan) =>
        /\ "main_category" \in Range(df_clean.columns)
        /\ \A i \in DOMAIN df_clean.rows :
               df_clean.rows[i]["main_category"]
                   = FirstTag(Source(i)["categories_tags"])

\* C7 (as claimed): once the aggregation has run on a cleaned table, the
\* aggregate holds, for every main category, the means of energy, sugars
\* and fiber over all the records of that category, a record whose value
\* was absent counting as a 0.
C7_AggregateMeans ==
    (Cleaned /\ TransformRan) =>
        /\ stats # <<>>
        /\ \A i \in DOMAIN df_clean.rows :
               \E j \in DOMAIN stats :
                   LET label == FirstTag(Source(i)["categories_tags"])
                       group == SelectSeq(
                           [x \in DOMAIN df_clean.rows |-> x],
                           LAMBDA x : FirstTag(Source(x)["categories_tags"])
                                          = label)
                       mean(value(_)) ==
                           [total |-> sumSeq([y \in DOMAIN group |->
                                                 value(group[y])]),
                            count |-> Len(group)]
                       energy(x) == ZeroIfAbsent(Source(x)["energy_100g"])
                       sugars(x) == df_clean.rows[x]["sugars_100g"].n
                       fiber(x)  == df_clean.rows[x]["fiber_100g"].n
                   IN  /\ stats[j].main_category = label
                       /\ stats[j].avg_energy = mean(energy)
                       /\ stats[j].avg_sugars = mean(sugars)
                       /\ stats[j].avg_fiber = mean(fiber)

\* C8 (as claimed): once the score statement has run on a cleaned table,
\* every record has a nutrition_score, the number energy_100g - fiber_100g
\* + sugars_100g of that record.
C8_NutritionScore ==
    (Cleaned /\ TransformRan) =>
        /\ "nutrition_score" \in Range(df_clean.columns)
        /\ \A i \in DOMAIN df_clean.rows :
               LET r == df_clean.rows[i]
               IN  r["nutrition_score"] =
                       Num(Source(i)["energy_100g"].n - r["fiber_100g"].n
                               + r["sugars_100g"].n)

C10_AllStagesComplete ==
    (/\ pc \in {"done", "halted"}
     /\ Range(columns_to_keep) \subseteq Range(df_csv.columns)) =>
        /\ errors = <<>>
        /\ DOMAIN outliers = Range(numeric_columns)
        /\ {"main_category", "nutrition_score"} \subseteq Range(df_clean.columns)
        /\ stats # <<>>

====
